---- MODULE Spec2Model ----
(***************************************************************************)
(* A model of the bytecode disassembler: the byte cursor (get_byte,        *)
(* get_pointer_byte, get_int24), the value decoders (decode_value,         *)
(* read_double), the register table, the dispatch table, the 36           *)
(* instruction formatters and the driver loop (execute).                   *)
(*                                                                         *)
(* A Rust String is a sequence of code points (naturals); a u8/u32 is a    *)
(* natural.  A trace line format!("{} ...", OpCodes::X.as_str()) is the    *)
(* record [op |-> "X", body |-> the characters after the mnemonic]: the    *)
(* mnemonic's text lives in opcodes.rs and is kept as the enum variant.    *)
(* A panic ends the run: status "failed" with the panic's payload.         *)
(***************************************************************************)
EXTENDS Integers, Sequences, FiniteSets, TLC

VARIABLES bytearray, ptr, registers, trace, stdout, status, panic

vars == <<bytearray, ptr, registers, trace, stdout, status, panic>>

(***************************************************************************)
(* Bounds of the input family.                                             *)
(***************************************************************************)
MaxSetup == 1   \* instructions encoded before the buffer's last instruction
MaxArgc == 1    \* length of a register list (argc / paramc / count byte)
MaxCut == 1     \* bytes cut off the end of the encoded buffer
MaxTextLen == 3 \* length of a text in the round-trip buffers

(***************************************************************************)
(* Strings, integers and bit operations.                                   *)
(***************************************************************************)
RECURSIVE Dec(_)
\* format!("{}", n) of an unsigned integer: its decimal digits.
Dec(n) == IF n < 10 THEN <<48 + n>> ELSE Dec(n \div 10) \o <<48 + (n % 10)>>

RECURSIVE Bin(_)
\* format!("{:b}", byte): binary digits, no leading zeros.
Bin(n) == IF n < 2 THEN <<48 + n>> ELSE Bin(n \div 2) \o <<48 + (n % 2)>>

RECURSIVE BitXor(_, _)
\* a ^ b on naturals.
BitXor(a, b) ==
    IF a = 0 THEN b
    ELSE IF b = 0 THEN a
    ELSE 2 * BitXor(a \div 2, b \div 2) + (((a % 2) + (b % 2)) % 2)

RECURSIVE BitOr(_, _)
\* a | b on naturals.
BitOr(a, b) ==
    IF a = 0 THEN b
    ELSE IF b = 0 THEN a
    ELSE 2 * BitOr(a \div 2, b \div 2) + (IF (a % 2) + (b % 2) > 0 THEN 1 ELSE 0)

RECURSIVE Shl(_, _)
\* a << k on a u32 (no operand of the program shifts bits out of 32).
Shl(a, k) == IF k = 0 THEN a ELSE Shl(2 * a, k - 1)

RECURSIVE Repeat(_, _)
\* str::repeat
Repeat(s, n) == IF n = 0 THEN <<>> ELSE s \o Repeat(s, n - 1)

RECURSIVE Join(_, _)
\* Vec<String>::join(sep)
Join(list, sep) ==
    IF list = <<>> THEN <<>>
    ELSE IF Len(list) = 1 THEN list[1]
    ELSE list[1] \o sep \o Join(Tail(list), sep)

RECURSIVE FromStrRadix2(_)
\* i32::from_str_radix(bits, 2) of a string of '0'/'1'.
FromStrRadix2(bits) ==
    IF bits = <<>> THEN 0
    ELSE 2 * FromStrRadix2(SubSeq(bits, 1, Len(bits) - 1)) + (bits[Len(bits)] - 48)

\* "reg{n}"
RegName(n) == <<114, 101, 103>> \o Dec(n)

\* The value every register starts with: "_free_reg_".
FREE_REG == <<95, 102, 114, 101, 101, 95, 114, 101, 103, 95>>

\* The mask of the string deobfuscation.
XorMask == 50

NumRegisters == 256

NoPanic == [kind |-> "none"]

\* Index out of bounds: the len is `len` but the index is `index`.
IndexPanic(len, index) == [kind |-> "index_out_of_bounds", len |-> len, index |-> index]

\* panic!("{}", msg)
ExplicitPanic(msg) == [kind |-> "explicit", msg |-> msg]

(***************************************************************************)
(* The cursor and the value decoders.  `self` is the disassembler's        *)
(* mutable part [ptr, registers, trace, panic]; a read returns             *)
(* [self |-> the disassembler after it, val |-> the value read].  After a  *)
(* panic nothing more runs: every operation passes a panicked `self` on.   *)
(***************************************************************************)
Ok(self) == self.panic.kind = "none"

\* Mutant of get_byte: no bounds check, a read past the end returns 0.
get_byte_unchecked(self) ==
    IF ~Ok(self) THEN [self |-> self, val |-> 0]
    ELSE [self |-> [self EXCEPT !.ptr = @ + 1],
          val |-> IF self.ptr >= Len(bytearray) THEN 0 ELSE bytearray[self.ptr + 1]]

get_byte(self) ==
    IF ~Ok(self) THEN [self |-> self, val |-> 0]
    ELSE IF self.ptr >= Len(bytearray)
         THEN [self |-> [self EXCEPT !.panic = IndexPanic(Len(bytearray), self.ptr)],
               val |-> 0]
         ELSE [self |-> [self EXCEPT !.ptr = @ + 1], val |-> bytearray[self.ptr + 1]]

\* Mutant of get_pointer_byte: the two bytes taken low byte first.
get_pointer_byte_le(self) ==
    LET r1 == get_byte(self)
        r2 == get_byte(r1.self)
    IN  [self |-> r2.self, val |-> IF Ok(r2.self) THEN BitOr(Shl(r2.val, 8), r1.val) ELSE 0]

get_pointer_byte(self) ==
    LET r1 == get_byte(self)
        byte1 == Shl(r1.val, 8)
        r2 == get_byte(r1.self)
        byte2 == BitOr(byte1, r2.val)
    IN  [self |-> r2.self, val |-> IF Ok(r2.self) THEN byte2 ELSE 0]

RECURSIVE decode_loop_short(_, _, _)
\* Mutant of decode_loop: the loop stops at the end of the buffer and returns
\* the characters read so far.
decode_loop_short(self, n, string) ==
    IF n = 0 \/ ~Ok(self) \/ self.ptr >= Len(bytearray) THEN [self |-> self, val |-> string]
    ELSE LET r == get_byte(self)
             c == BitXor(r.val, XorMask)
         IN  decode_loop_short(r.self, n - 1, string \o <<c>>)

RECURSIVE decode_loop(_, _, _)
\* for _ in 0..string_len { ... } of decode_value, `string` the text so far.
decode_loop(self, n, string) ==
    IF n = 0 \/ ~Ok(self) THEN [self |-> self, val |-> string]
    ELSE LET r == get_byte(self)
             c == BitXor(r.val, XorMask)
         IN  decode_loop(r.self, n - 1, IF Ok(r.self) THEN string \o <<c>> ELSE string)

decode_value(self) ==
    LET r == get_pointer_byte(self)
        string_len == r.val
    IN  decode_loop(r.self, string_len, <<>>)

get_int24(self) ==
    LET r1 == get_byte(self)
        r2 == get_byte(r1.self)
        r3 == get_byte(r2.self)
        r4 == get_byte(r3.self)
        byte == BitOr(BitOr(BitOr(Shl(r1.val, 24), Shl(r2.val, 16)), Shl(r3.val, 8)), r4.val)
    IN  [self |-> r4.self, val |-> IF Ok(r4.self) THEN byte ELSE 0]

left_pad(input, target_length, pad_char) ==
    IF Len(input) >= target_length THEN input
    ELSE LET pad_length == target_length - Len(input)
             pad == IF pad_length > Len(pad_char)
                    THEN Repeat(pad_char, (pad_length \div Len(pad_char)) + 1)
                    ELSE pad_char
         IN  SubSeq(pad, 1, pad_length) \o input

RECURSIVE read_bits(_, _, _)
\* for _ in 0..8 { ... } of read_double, `bit_string` the bits so far.
read_bits(self, n, bit_string) ==
    IF n = 0 \/ ~Ok(self) THEN [self |-> self, val |-> bit_string]
    ELSE LET r == get_byte(self)
             bits == Bin(r.val)
         IN  read_bits(r.self, n - 1,
                       IF Ok(r.self) THEN bit_string \o left_pad(bits, 8, <<48>>)
                       ELSE bit_string)

\* The f64 read_double returns, kept exactly: zero, or sign * mantissa * 2^exponent
\* with the mantissa as its 53-character bit string (bit k has weight 2^-k).
read_double(self) ==
    LET r == read_bits(self, 8, <<>>)
        bit_string == r.val
    IN  IF ~Ok(r.self) THEN [self |-> r.self, val |-> [zero |-> TRUE]]
        ELSE LET sign == IF bit_string[1] = 49 THEN -1 ELSE 1
                 exponent_bits == SubSeq(bit_string, 2, 12)
                 exponent == FromStrRadix2(exponent_bits)
                 mantissa_bits == SubSeq(bit_string, 13, 64)
             IN  IF exponent = 0
                 THEN IF \A i \in 1..Len(mantissa_bits) : mantissa_bits[i] # 49
                      THEN [self |-> r.self, val |-> [zero |-> TRUE]]
                      ELSE [self |-> r.self,
                            val |-> [zero |-> FALSE, sign |-> sign, exponent |-> -1022,
                                     mantissa_string |-> <<48>> \o mantissa_bits]]
                 ELSE [self |-> r.self,
                       val |-> [zero |-> FALSE, sign |-> sign, exponent |-> exponent - 1023,
                                mantissa_string |-> <<49>> \o mantissa_bits]]

\* format!("{val}") of the f64: "0" for zero; any other value is written as
\* its sign, significand bits and binary exponent (the shortest decimal
\* rendering of Rust's Display for f64 is not reproduced).
F64Display(val) ==
    IF val.zero THEN <<48>>
    ELSE (IF val.sign < 0 THEN <<45>> ELSE <<>>) \o val.mantissa_string \o <<101>>
         \o (IF val.exponent < 0 THEN <<45>> \o Dec(-val.exponent) ELSE Dec(val.exponent))


(***************************************************************************)
(* The dispatch table and the instruction formatters.                      *)
(***************************************************************************)
\* Instructions::get_instructions: opcode byte -> formatter.
get_instructions ==
    (124 :> "init_memory") @@ (23 :> "new_value") @@ (251 :> "get_property")
    @@ (215 :> "call_function") @@ (6 :> "mul_op") @@ (241 :> "mov_imm24")
    @@ (90 :> "call_apply") @@ (55 :> "div_op") @@ (65 :> "or_op")
    @@ (230 :> "sub_op") @@ (88 :> "push_args") @@ (181 :> "load_imm24")
    @@ (49 :> "jump_frame") @@ (171 :> "new_function") @@ (20 :> "less_than")
    @@ (39 :> "jump_if_false") @@ (112 :> "less_than") @@ (99 :> "set_property")
    @@ (243 :> "add_op") @@ (93 :> "jump") @@ (166 :> "halt") @@ (53 :> "shl_op")
    @@ (17 :> "function_ret") @@ (78 :> "equal_op") @@ (117 :> "xor_op")
    @@ (51 :> "load_double") @@ (40 :> "ushr_op") @@ (149 :> "shr_op")
    @@ (37 :> "and_op") @@ (156 :> "mod_op") @@ (247 :> "lte_op")
    @@ (214 :> "lte_op") @@ (22 :> "notequal_op") @@ (83 :> "jump_if_true")
    @@ (115 :> "try_catch") @@ (161 :> "strict_equal_op")
    @@ (220 :> "strict_notequal_op") @@ (5 :> "throw_op")

\* disasm.trace.push(format!("{}<body>", OpCodes::<op>.as_str())), reached
\* only when no read before it panicked.
Push(disasm, op, body) ==
    IF Ok(disasm) THEN [disasm EXCEPT !.trace = Append(@, [op |-> op, body |-> body])]
    ELSE disasm

\* if &disasm.registers[r] != "_free_reg_" { registers[r].clone() } else { format!("reg{}", r) }
Resolve(disasm, r) ==
    IF disasm.registers[r] # FREE_REG THEN disasm.registers[r] ELSE RegName(r)

\* " -> reg{reg}"
Arrow(reg) == <<32, 45, 62, 32>> \o RegName(reg)

RECURSIVE read_reg_list(_, _, _)
\* for _ in 0..n { let r = disasm.get_byte(); list.push(format!("reg{}", r)) }
read_reg_list(disasm, n, list) ==
    IF n = 0 \/ ~Ok(disasm) THEN [self |-> disasm, val |-> list]
    ELSE LET r == get_byte(disasm)
         IN  read_reg_list(r.self, n - 1,
                           IF Ok(r.self) THEN Append(list, RegName(r.val)) ELSE list)

\* The formatters of the three-register operators: reg, left_reg, right_reg,
\* then "{} reg{left_reg} <sym> reg{right_reg} -> reg{reg}".
binary_op(disasm, op, sym) ==
    LET reg == get_byte(disasm)
        left_reg == get_byte(reg.self)
        right_reg == get_byte(left_reg.self)
    IN  Push(right_reg.self, op,
             <<32>> \o RegName(left_reg.val) \o <<32>> \o sym \o <<32>>
             \o RegName(right_reg.val) \o Arrow(reg.val))

\* The head of one iteration of the loop of execute: the loop condition
\* holds and the opcode fetched maps to the formatter `name`.
Dispatch(name) ==
    /\ status = "running"
    /\ ptr < Len(bytearray)
    /\ LET offset == bytearray[ptr + 1]
       IN  /\ offset \in DOMAIN get_instructions
           /\ get_instructions[offset] = name

\* Mutant of Fetched: the opcode byte is looked at but not consumed.
Fetched_not_consumed ==
    [ptr |-> ptr, registers |-> registers, trace |-> trace, panic |-> NoPanic]

\* The disassembler handed to the formatter: the opcode byte is consumed.
Fetched == [ptr |-> ptr + 1, registers |-> registers, trace |-> trace, panic |-> NoPanic]

\* Mutant of Finish: the offset printed is the one before the formatter ran.
Finish_offset_before(d) ==
    IF Ok(d)
    THEN /\ ptr' = d.ptr
         /\ registers' = d.registers
         /\ trace' = d.trace
         /\ stdout' = Append(stdout, [head |-> <<48, 120>> \o Dec(ptr + 1) \o <<32, 32, 32, 32>>,
                                      instr |-> d.trace[Len(d.trace)]])
         /\ UNCHANGED <<bytearray, status, panic>>
    ELSE /\ ptr' = d.ptr
         /\ registers' = d.registers
         /\ trace' = d.trace
         /\ status' = "failed"
         /\ panic' = d.panic
         /\ UNCHANGED <<bytearray, stdout>>

\* The rest of the iteration, `d` the disassembler the formatter left: print
\* the last trace line with the offset.  A panic inside the formatter ends the
\* run where it happened.
Finish(d) ==
    IF Ok(d)
    THEN LET last_instr == d.trace[Len(d.trace)]
             new_instr == [head |-> <<48, 120>> \o Dec(d.ptr) \o <<32, 32, 32, 32>>,
                           instr |-> last_instr]
         IN  /\ ptr' = d.ptr
             /\ registers' = d.registers
             /\ trace' = d.trace
             /\ stdout' = Append(stdout, new_instr)
             /\ UNCHANGED <<bytearray, status, panic>>
    ELSE /\ ptr' = d.ptr
         /\ registers' = d.registers
         /\ trace' = d.trace
         /\ status' = "failed"
         /\ panic' = d.panic
         /\ UNCHANGED <<bytearray, stdout>>

init_memory ==
    /\ Dispatch("init_memory")
    /\ LET disasm == Fetched
           reg == get_byte(disasm)
           value == get_byte(reg.self)
       IN  Finish(Push(value.self, "InitMemory", <<32>> \o Dec(value.val) \o Arrow(reg.val)))

new_value ==
    /\ Dispatch("new_value")
    /\ LET disasm == Fetched
           reg == get_byte(disasm)
           value == decode_value(reg.self)
           pushed == Push(value.self, "NewValue",
                          <<32, 39>> \o value.val \o <<39>> \o Arrow(reg.val))
       IN  Finish(IF Ok(pushed) THEN [pushed EXCEPT !.registers[reg.val] = value.val]
                  ELSE pushed)

get_property ==
    /\ Dispatch("get_property")
    /\ LET disasm == Fetched
           reg == get_byte(disasm)
           obj_reg == get_byte(reg.self)
           prop_reg == get_byte(obj_reg.self)
           val == Resolve(prop_reg.self, prop_reg.val)
       IN  Finish(Push(prop_reg.self, "GetProperty",
                       <<32>> \o RegName(obj_reg.val) \o <<91>> \o val \o <<93>> \o Arrow(reg.val)))

call_function ==
    /\ Dispatch("call_function")
    /\ LET disasm == Fetched
           reg == get_byte(disasm)
           func_reg == get_byte(reg.self)
           func == Resolve(func_reg.self, func_reg.val)
           arg_len == get_byte(func_reg.self)
           args == read_reg_list(arg_len.self, arg_len.val, <<>>)
       IN  Finish(Push(args.self, "CallFunction",
                       <<32>> \o func \o <<40>> \o Join(args.val, <<44>>) \o <<41>> \o Arrow(reg.val)))

mov_imm24 ==
    /\ Dispatch("mov_imm24")
    /\ LET disasm == Fetched
           reg == get_byte(disasm)
           val_24 == get_int24(reg.self)
       IN  Finish(Push(val_24.self, "MovImm24", <<32>> \o Dec(val_24.val) \o Arrow(reg.val)))

call_apply ==
    /\ Dispatch("call_apply")
    /\ LET disasm == Fetched
           reg == get_byte(disasm)
           func_reg == get_byte(reg.self)
           func == Resolve(func_reg.self, func_reg.val)
           this_reg == get_byte(func_reg.self)
           arg_len == get_byte(this_reg.self)
           args == read_reg_list(arg_len.self, arg_len.val, <<>>)
       IN  Finish(Push(args.self, "CallApply",
                       <<32>> \o func \o <<46, 97, 112, 112, 108, 121, 40>> \o RegName(this_reg.val)
                       \o <<44, 32, 91>> \o Join(args.val, <<44>>) \o <<93, 41>> \o Arrow(reg.val)))

push_args ==
    /\ Dispatch("push_args")
    /\ LET disasm == Fetched
           reg == get_byte(disasm)
           arg_len == get_byte(reg.self)
           args == read_reg_list(arg_len.self, arg_len.val, <<>>)
       IN  Finish(Push(args.self, "PushArgs",
                       <<32, 91>> \o Join(args.val, <<44>>) \o <<93>> \o Arrow(reg.val)))

\* Mutant of load_imm24: the immediate read four bytes wide, as mov_imm24 does.
load_imm24_wide ==
    /\ Dispatch("load_imm24")
    /\ LET disasm == Fetched
           reg == get_byte(disasm)
           val_24 == get_int24(reg.self)
       IN  Finish(Push(val_24.self, "LoadImm24", <<32>> \o Dec(val_24.val) \o Arrow(reg.val)))

load_imm24 ==
    /\ Dispatch("load_imm24")
    /\ LET disasm == Fetched
           reg == get_byte(disasm)
           val_24 == get_byte(reg.self)
       IN  Finish(Push(val_24.self, "LoadImm24", <<32>> \o Dec(val_24.val) \o Arrow(reg.val)))

jump_frame ==
    /\ Dispatch("jump_frame")
    /\ LET disasm == Fetched
           entry == get_int24(disasm)
           context == get_byte(entry.self)
           params_count == get_byte(context.self)
           params == read_reg_list(params_count.self, params_count.val, <<>>)
       IN  Finish(Push(params.self, "JumpFrame",
                       <<32, 101, 110, 116, 114, 121, 40>> \o Dec(entry.val) \o <<41, 44, 32>>
                       \o Dec(context.val) \o <<44, 32, 112, 97, 114, 97, 109, 115, 40>>
                       \o Join(params.val, <<44>>) \o <<41>>))

new_function ==
    /\ Dispatch("new_function")
    /\ LET disasm == Fetched
           reg == get_byte(disasm)
           func_entry == get_int24(reg.self)
           args_len == get_byte(func_entry.self)
           args == read_reg_list(args_len.self, args_len.val, <<>>)
       IN  Finish(Push(args.self, "NewFunction",
                       <<32, 101, 110, 116, 114, 121, 40>> \o Dec(func_entry.val)
                       \o <<41, 44, 32, 97, 114, 103, 115, 40>> \o Join(args.val, <<44>>) \o <<41>>))

jump_if_false ==
    /\ Dispatch("jump_if_false")
    /\ LET disasm == Fetched
           reg == get_byte(disasm)
           entry == get_int24(reg.self)
       IN  Finish(Push(entry.self, "JumpIfFalse",
                       <<32>> \o RegName(reg.val) \o <<44, 32, 101, 110, 116, 114, 121, 40>>
                       \o Dec(entry.val) \o <<41>>))

set_property ==
    /\ Dispatch("set_property")
    /\ LET disasm == Fetched
           obj_reg == get_byte(disasm)
           prop_reg == get_byte(obj_reg.self)
           val_reg == get_byte(prop_reg.self)
           val == Resolve(val_reg.self, val_reg.val)
           prop == Resolve(val_reg.self, prop_reg.val)
       IN  Finish(Push(val_reg.self, "SetProperty",
                       <<32>> \o RegName(obj_reg.val) \o <<91>> \o prop \o <<93, 32, 61, 32>> \o val))

jump ==
    /\ Dispatch("jump")
    /\ LET disasm == Fetched
           entry == get_int24(disasm)
       IN  Finish(Push(entry.self, "Jump", <<32>> \o Dec(entry.val)))

\* Mutant of halt: the formatter also ends the run.
halt_stops ==
    /\ Dispatch("halt")
    /\ ptr' = ptr + 1
    /\ trace' = Append(trace, [op |-> "Halt", body |-> <<>>])
    /\ stdout' = Append(stdout, [head |-> <<48, 120>> \o Dec(ptr + 1) \o <<32, 32, 32, 32>>,
                                 instr |-> [op |-> "Halt", body |-> <<>>]])
    /\ status' = "halted"
    /\ UNCHANGED <<bytearray, registers, panic>>

halt ==
    /\ Dispatch("halt")
    /\ Finish(Push(Fetched, "Halt", <<>>))

function_ret ==
    /\ Dispatch("function_ret")
    /\ LET disasm == Fetched
           reg == get_byte(disasm)
           count == get_byte(reg.self)
           list == read_reg_list(count.self, count.val, <<>>)
       IN  Finish(Push(list.self, "Ret",
                       <<32>> \o Dec(reg.val) \o <<32, 91>> \o Join(list.val, <<44>>) \o <<93>>))

load_double ==
    /\ Dispatch("load_double")
    /\ LET disasm == Fetched
           reg == get_byte(disasm)
           val == read_double(reg.self)
       IN  Finish(Push(val.self, "LoadDouble", <<32>> \o F64Display(val.val) \o Arrow(reg.val)))

jump_if_true ==
    /\ Dispatch("jump_if_true")
    /\ LET disasm == Fetched
           reg == get_byte(disasm)
           entry == get_int24(reg.self)
       IN  Finish(Push(entry.self, "JumpIfTrue",
                       <<32>> \o RegName(reg.val) \o <<44, 32, 101, 110, 116, 114, 121, 40>>
                       \o Dec(entry.val) \o <<41>>))

try_catch ==
    /\ Dispatch("try_catch")
    /\ LET disasm == Fetched
           reg == get_byte(disasm)
           catch_offset == get_int24(reg.self)
           finally_offset == get_int24(catch_offset.self)
           continue_offset == get_int24(finally_offset.self)
       IN  Finish(Push(continue_offset.self, "TryCatch",
                       <<32, 91>> \o Dec(catch_offset.val) \o <<44, 32>> \o Dec(finally_offset.val)
                       \o <<44, 32>> \o Dec(continue_offset.val) \o <<93>> \o Arrow(reg.val)))

throw_op ==
    /\ Dispatch("throw_op")
    /\ LET disasm == Fetched
           reg == get_byte(disasm)
       IN  Finish(Push(reg.self, "Throw", <<32>> \o Dec(reg.val)))

mul_op ==
    /\ Dispatch("mul_op")
    /\ Finish(binary_op(Fetched, "Mul", <<42>>))

div_op ==
    /\ Dispatch("div_op")
    /\ Finish(binary_op(Fetched, "Div", <<47>>))

or_op ==
    /\ Dispatch("or_op")
    /\ Finish(binary_op(Fetched, "Or", <<124>>))

sub_op ==
    /\ Dispatch("sub_op")
    /\ Finish(binary_op(Fetched, "Sub", <<45>>))

less_than ==
    /\ Dispatch("less_than")
    /\ Finish(binary_op(Fetched, "LessThan", <<60>>))

add_op ==
    /\ Dispatch("add_op")
    /\ Finish(binary_op(Fetched, "Add", <<43>>))

shl_op ==
    /\ Dispatch("shl_op")
    /\ Finish(binary_op(Fetched, "Shl", <<60, 60>>))

equal_op ==
    /\ Dispatch("equal_op")
    /\ Finish(binary_op(Fetched, "Equal", <<61, 61>>))

xor_op ==
    /\ Dispatch("xor_op")
    /\ Finish(binary_op(Fetched, "Xor", <<94>>))

ushr_op ==
    /\ Dispatch("ushr_op")
    /\ Finish(binary_op(Fetched, "Ushr", <<62, 62, 62>>))

shr_op ==
    /\ Dispatch("shr_op")
    /\ Finish(binary_op(Fetched, "Shr", <<62, 62>>))

and_op ==
    /\ Dispatch("and_op")
    /\ Finish(binary_op(Fetched, "And", <<38>>))

mod_op ==
    /\ Dispatch("mod_op")
    /\ Finish(binary_op(Fetched, "Mod", <<37>>))

lte_op ==
    /\ Dispatch("lte_op")
    /\ Finish(binary_op(Fetched, "Lte", <<60, 61>>))

notequal_op ==
    /\ Dispatch("notequal_op")
    /\ Finish(binary_op(Fetched, "NotEqual", <<33, 61>>))

strict_equal_op ==
    /\ Dispatch("strict_equal_op")
    /\ Finish(binary_op(Fetched, "StrictEqual", <<61, 61, 61>>))

strict_notequal_op ==
    /\ Dispatch("strict_notequal_op")
    /\ Finish(binary_op(Fetched, "StrictNotEqual", <<33, 61, 61>>))

\* Mutant of unknown_opcode: the byte is skipped and the loop goes on.
unknown_opcode_skips ==
    /\ status = "running"
    /\ ptr < Len(bytearray)
    /\ bytearray[ptr + 1] \notin DOMAIN get_instructions
    /\ ptr' = ptr + 1
    /\ UNCHANGED <<bytearray, registers, trace, stdout, status, panic>>

\* The else branch of execute: panic!("Unknown Opcode: {offset}").
unknown_opcode ==
    /\ status = "running"
    /\ ptr < Len(bytearray)
    /\ LET offset == bytearray[ptr + 1]
       IN  /\ offset \notin DOMAIN get_instructions
           /\ panic' = ExplicitPanic(<<85, 110, 107, 110, 111, 119, 110, 32, 79, 112, 99,
                                       111, 100, 101, 58, 32>> \o Dec(offset))
    /\ ptr' = ptr + 1
    /\ status' = "failed"
    /\ UNCHANGED <<bytearray, registers, trace, stdout>>

\* The loop condition of execute is false: execute returns.
execute_return ==
    /\ status = "running"
    /\ ~(ptr < Len(bytearray))
    /\ status' = "halted"
    /\ UNCHANGED <<bytearray, ptr, registers, trace, stdout, panic>>


(***************************************************************************)
(* The inputs.  Disassembler::new takes any byte buffer; the runs checked  *)
(* start from the buffers below: up to MaxSetup instructions of            *)
(* SetupInstrs, then at most one instruction of Catalogue, the last        *)
(* 0..MaxCut bytes of that encoding cut off, then one of Tails; and the    *)
(* define-constant buffers of every text of RoundTripTexts.                *)
(***************************************************************************)
Regs == {3, 4}

\* The reference encoder of a string constant: 16-bit big-endian length,
\* then code ^ 50 per character.
Encode(text) ==
    <<Len(text) \div 256, Len(text) % 256>>
    \o [i \in 1..Len(text) |-> BitXor(text[i], 50)]

\* "", "ef", "_free_reg_"
Texts == {<<>>, <<101, 102>>, FREE_REG}

\* The register bytes of a list of n registers.
RegList(n) == [i \in 1..n |-> 4 + i]

DefineInstrs == {<<23, r>> \o Encode(t) : r \in Regs, t \in Texts}

ResolvingInstrs ==
    {<<251, 1, o, p>> : o \in Regs, p \in Regs}
    \cup {<<99, o, p, v>> : o \in Regs, p \in Regs, v \in Regs}
    \cup {<<215, 1, f, n>> \o RegList(n) : f \in Regs, n \in 0..MaxArgc}
    \cup {<<90, 1, f, 2, n>> \o RegList(n) : f \in Regs, n \in 0..MaxArgc}

ListInstrs ==
    {<<88, 1, n>> \o RegList(n) : n \in 0..MaxArgc}
    \cup {<<49, 0, 0, 1, 44, 7, n>> \o RegList(n) : n \in 0..MaxArgc}
    \cup {<<171, 1, 0, 0, 0, 9, n>> \o RegList(n) : n \in 0..MaxArgc}
    \cup {<<17, 1, n>> \o RegList(n) : n \in 0..MaxArgc}

BinaryOpcodes ==
    {6, 55, 65, 230, 20, 112, 243, 53, 78, 117, 40, 149, 37, 156, 247, 214, 22, 161, 220}

FixedInstrs ==
    {<<op, 1, 3, 4>> : op \in BinaryOpcodes}
    \cup {<<124, 1, 200>>, <<241, 1, 0, 1, 2, 3>>, <<181, 1, 77>>,
          <<39, 3, 0, 0, 1, 0>>, <<83, 4, 0, 0, 0, 16>>, <<93, 0, 0, 0, 5>>,
          <<166>>, <<5, 3>>,
          <<115, 1, 0, 0, 0, 10, 0, 0, 0, 20, 0, 0, 0, 30>>,
          <<51, 1, 64, 9, 33, 251, 84, 68, 45, 24>>,
          <<51, 1, 0, 0, 0, 0, 0, 0, 0, 0>>,
          <<51, 1, 128, 0, 0, 0, 0, 0, 0, 1>>}

Catalogue == DefineInstrs \cup ResolvingInstrs \cup ListInstrs \cup FixedInstrs

\* define-constant of "ef" and of "_free_reg_" into register 3 and of "" into
\* register 4, halt, load-imm.
SetupInstrs ==
    {<<23, 3>> \o Encode(<<101, 102>>), <<23, 3>> \o Encode(FREE_REG),
     <<23, 4>> \o Encode(<<>>), <<166>>, <<181, 1, 77>>}

\* What follows: nothing, an unknown opcode before a halt, or a throw and a
\* halt.
Tails == {<<>>, <<255, 166>>, <<5, 3, 166>>}

RECURSIVE Flatten(_)
Flatten(seqs) == IF seqs = <<>> THEN <<>> ELSE Head(seqs) \o Flatten(Tail(seqs))

RECURSIVE SeqsUpTo(_, _)
\* The sequences over S of length <= n.
SeqsUpTo(S, n) ==
    IF n = 0 THEN {<<>>}
    ELSE LET shorter == SeqsUpTo(S, n - 1)
         IN  shorter \cup {Append(q, x) : q \in shorter, x \in S}

CutEnd(bytes, k) == SubSeq(bytes, 1, IF Len(bytes) > k THEN Len(bytes) - k ELSE 0)

ProgramBuffers ==
    {Flatten(setup) \o CutEnd(last, cut) \o tail :
        setup \in SeqsUpTo(SetupInstrs, MaxSetup),
        last \in Catalogue \cup {<<>>},
        cut \in 0..MaxCut,
        tail \in Tails}

RoundTripChars == {0, 50, 101, 255}

RoundTripTexts == SeqsUpTo(RoundTripChars, MaxTextLen)

RoundTripBuffers == {<<23, r>> \o Encode(t) : r \in Regs, t \in RoundTripTexts}

\* Disassembler::new, for each buffer decode_bytecode can return here.
Init ==
    /\ bytearray \in ProgramBuffers \cup RoundTripBuffers
    /\ ptr = 0
    /\ registers = [r \in 0..(NumRegisters - 1) |-> FREE_REG]
    /\ trace = <<>>
    /\ stdout = <<>>
    /\ status = "running"
    /\ panic = NoPanic

Next ==
    \/ init_memory \/ new_value \/ get_property \/ call_function \/ mul_op
    \/ mov_imm24 \/ call_apply \/ div_op \/ or_op \/ sub_op \/ push_args
    \/ load_imm24 \/ jump_frame \/ new_function \/ less_than \/ jump_if_false
    \/ set_property \/ add_op \/ jump \/ halt \/ shl_op \/ function_ret
    \/ equal_op \/ xor_op \/ load_double \/ ushr_op \/ shr_op \/ and_op
    \/ mod_op \/ lte_op \/ notequal_op \/ jump_if_true \/ try_catch
    \/ strict_equal_op \/ strict_notequal_op \/ throw_op
    \/ unknown_opcode \/ execute_return

Spec == Init /\ [][Next]_vars


(***************************************************************************)
(* Properties.                                                             *)
(***************************************************************************)
StartsWith(s, prefix) == Len(s) >= Len(prefix) /\ SubSeq(s, 1, Len(prefix)) = prefix

IsPrefix(s, t) == Len(s) <= Len(t) /\ SubSeq(t, 1, Len(s)) = s

\* The iteration about to run decodes an instruction of formatter `name` and
\* the formatter completes: one more trace line, the run still Running.
Decodes(name) == Dispatch(name) /\ status' = "running" /\ Len(trace') = Len(trace) + 1

\* The trace holds the line of a define-constant that assigned `text` to
\* register r.
Assigned(r, text) ==
    \E i \in 1..Len(trace) :
        trace[i] = [op |-> "NewValue", body |-> <<32, 39>> \o text \o <<39>> \o Arrow(r)]

\* The slot of register r is Constant (it holds a text), not Unbound.
SlotIsConstant(r) == registers[r] # FREE_REG

\* What the symbol table displays for register r.
Display(r) == IF SlotIsConstant(r) THEN registers[r] ELSE RegName(r)

\* C1: after a define-constant has assigned the text t to register r, a
\* get-property whose object operand is r shows t for the object in its
\* trace line, not "reg" + r.
C1_GetPropertyShowsObjectText ==
    [][Decodes("get_property") =>
          LET obj_reg == bytearray[ptr + 3]
              t == registers[obj_reg]
              line == trace'[Len(trace')]
          IN  Assigned(obj_reg, t) => StartsWith(line.body, <<32>> \o t \o <<91>>)]_vars

\* C2: the operands set-property (obj, prop, val), call-function (func) and
\* call-apply (func) resolve are displayed through the symbol table: the
\* stored text when the slot is Constant, "reg" + index when it is Unbound.
C2_ResolvedOperandsDisplayed ==
    [][/\ Decodes("set_property") =>
              trace'[Len(trace')].body =
                  <<32>> \o Display(bytearray[ptr + 2]) \o <<91>>
                  \o Display(bytearray[ptr + 3]) \o <<93, 32, 61, 32>>
                  \o Display(bytearray[ptr + 4])
       /\ Decodes("call_function") =>
              StartsWith(trace'[Len(trace')].body,
                         <<32>> \o Display(bytearray[ptr + 3]) \o <<40>>)
       /\ Decodes("call_apply") =>
              StartsWith(trace'[Len(trace')].body,
                         <<32>> \o Display(bytearray[ptr + 3])
                         \o <<46, 97, 112, 112, 108, 121, 40>>)]_vars

\* C3: all 256 slots start Unbound; only define-constant changes the register
\* table; a slot define-constant has written is Constant from then on,
\* whatever text was decoded, and resolves to the text stored last.
C3_SlotsOnlyBecomeConstant ==
    /\ \A r \in 0..255 : ~SlotIsConstant(r)
    /\ [][registers' # registers => Dispatch("new_value")]_vars
    /\ [][Decodes("new_value") =>
              LET reg == bytearray[ptr + 2]
                  text == SubSeq(trace'[Len(trace')].body, 3,
                                 Len(trace'[Len(trace')].body) - Len(Arrow(reg)) - 1)
              IN  /\ registers'[reg] # FREE_REG
                  /\ Resolve([registers |-> registers'], reg) = text]_vars
    /\ [][\A r \in 0..255 : SlotIsConstant(r) => registers'[r] # FREE_REG]_vars


RECURSIVE ParseDec(_)
\* The number a string of decimal digits writes; -1 if it is no such string.
ParseDec(digits) ==
    IF digits = <<>> THEN -1
    ELSE LET last == digits[Len(digits)]
             rest == SubSeq(digits, 1, Len(digits) - 1)
         IN  IF last < 48 \/ last > 57 THEN -1
             ELSE IF rest = <<>> THEN last - 48
             ELSE IF ParseDec(rest) < 0 THEN -1
             ELSE 10 * ParseDec(rest) + (last - 48)

\* The loop of execute is about to read an opcode byte the dispatch table
\* has no entry for.
AtUnknownOpcode ==
    /\ status = "running"
    /\ ptr < Len(bytearray)
    /\ bytearray[ptr + 1] \notin DOMAIN get_instructions

\* C4: an opcode byte without an entry in the dispatch table fails the run at
\* once with an error naming the byte: no trace line, no output line, the
\* register table unchanged, and nothing is decoded after it.
C4_UnknownOpcodeIsFatal ==
    /\ [][AtUnknownOpcode =>
              /\ status' = "failed"
              /\ panic'.kind = "explicit"
              /\ ParseDec(SubSeq(panic'.msg, 17, Len(panic'.msg))) = bytearray[ptr + 1]
              /\ trace' = trace
              /\ stdout' = stdout
              /\ registers' = registers]_vars
    /\ [][status = "failed" => UNCHANGED vars]_vars

\* An unknown opcode failed the run after an instruction was decoded, with
\* bytes of the buffer left behind it.
C4_Witness ==
    /\ status = "failed"
    /\ panic.kind = "explicit"
    /\ Len(trace) = 1
    /\ ptr < Len(bytearray)

\* C5: halt consumes no operand byte, appends exactly one trace line and
\* leaves the run Running; the run leaves Running only with the cursor at the
\* end of the buffer or by a failure.
C5_HaltDoesNotStop ==
    /\ [][Dispatch("halt") =>
              /\ ptr' = ptr + 1
              /\ Len(trace') = Len(trace) + 1
              /\ SubSeq(trace', 1, Len(trace)) = trace
              /\ status' = "running"]_vars
    /\ [][(status = "running" /\ status' # "running") =>
              \/ status' = "halted" /\ ptr' = Len(bytearray) /\ ptr = ptr'
              \/ status' = "failed"]_vars

\* A halt was decoded and the instruction after it was decoded too.
C5_Witness ==
    /\ Len(trace) = 2
    /\ trace[1].op = "Halt"
    /\ trace[2].op # "Halt"
    /\ status = "halted"

\* The define-constant about to be decoded has its register byte and length
\* prefix in the buffer, and declares more string bytes than remain.
AtShortString ==
    /\ Dispatch("new_value")
    /\ ptr + 4 <= Len(bytearray)
    /\ 256 * bytearray[ptr + 3] + bytearray[ptr + 4] > Len(bytearray) - (ptr + 4)

\* C6: a define-constant that declares a string length N with fewer than N
\* bytes left after the length prefix fails the run with an out-of-bounds
\* error: no trace line for it, no output line, its register not bound, and
\* the run does not go on.
C6_ShortStringIsOutOfBounds ==
    /\ [][AtShortString =>
              /\ status' = "failed"
              /\ panic'.kind = "index_out_of_bounds"
              /\ trace' = trace
              /\ stdout' = stdout
              /\ registers' = registers]_vars
    /\ [][panic.kind = "index_out_of_bounds" => UNCHANGED vars]_vars

\* A define-constant of a two-character text, cut one byte short, has failed.
C6_Witness ==
    /\ status = "failed"
    /\ panic.kind = "index_out_of_bounds"
    /\ bytearray = <<23, 3, 0, 2, 87>>
    /\ ptr = 5


\* A disassembler with its cursor at offset `off` of the buffer.
CursorAt(off) == [ptr |-> off, registers |-> registers, trace |-> trace, panic |-> NoPanic]

\* C7: decode_value inverts the reference encoder: where a define-constant
\* is about to decode the encoding of a text (16-bit big-endian length, then
\* code ^ 50 per character), decode_value returns exactly that text and
\* advances the cursor by 2 + length; and after a buffer holding one
\* define-constant of an encoded text has run, its register holds the text.
C7_DecodeInvertsEncode ==
    /\ Dispatch("new_value") =>
           \A t \in RoundTripTexts \cup Texts :
               (/\ ptr + 4 + Len(t) <= Len(bytearray)
                /\ 256 * bytearray[ptr + 3] + bytearray[ptr + 4] = Len(t)
                /\ SubSeq(bytearray, ptr + 3, ptr + 4 + Len(t)) = Encode(t))
               => LET r == decode_value(CursorAt(ptr + 2))
                  IN  Ok(r.self) /\ r.val = t /\ r.self.ptr = (ptr + 2) + 2 + Len(t)
    /\ (Len(trace) = 1 /\ ptr = Len(bytearray) /\ bytearray[1] = 23) =>
           \A t \in RoundTripTexts \cup Texts :
               bytearray = <<23, bytearray[2]>> \o Encode(t)
               => registers[bytearray[2]] = t /\ ptr = 2 + 2 + Len(t)

\* A three-character text with the code points 255, 0 and 50 was decoded
\* from its encoding into a register.
C7_Witness ==
    /\ bytearray = <<23, 3>> \o Encode(<<255, 0, 50>>)
    /\ registers[3] = <<255, 0, 50>>
    /\ status = "halted"

\* The iteration about to run decodes an instruction: the opcode is in the
\* dispatch table and its formatter completes.
DecodesInstruction ==
    /\ status = "running"
    /\ ptr < Len(bytearray)
    /\ bytearray[ptr + 1] \in DOMAIN get_instructions
    /\ status' = "running"

\* C8: an iteration that decodes an instruction appends exactly one line to
\* the trace and emits exactly one output line, the new trace line with the
\* cursor offset after the instruction in decimal; the trace and the output
\* hold one line per decoded instruction in decode order, and a line once in
\* the trace is never changed or removed.
C8_OneLinePerInstruction ==
    /\ [][DecodesInstruction =>
              /\ Len(trace') = Len(trace) + 1
              /\ Len(stdout') = Len(stdout) + 1
              /\ stdout'[Len(stdout')].instr = trace'[Len(trace')]
              /\ LET head == stdout'[Len(stdout')].head
                 IN  /\ Len(head) > 6
                     /\ SubSeq(head, 1, 2) = <<48, 120>>
                     /\ SubSeq(head, Len(head) - 3, Len(head)) = <<32, 32, 32, 32>>
                     /\ ParseDec(SubSeq(head, 3, Len(head) - 4)) = ptr']_vars
    /\ [][~DecodesInstruction => trace' = trace /\ stdout' = stdout]_vars
    /\ [][IsPrefix(trace, trace') /\ IsPrefix(stdout, stdout')]_vars
    /\ [](/\ Len(stdout) = Len(trace)
          /\ \A i \in 1..Len(trace) : stdout[i].instr = trace[i]
          /\ \A i \in 1..(Len(stdout) - 1) :
                 ParseDec(SubSeq(stdout[i].head, 3, Len(stdout[i].head) - 4))
                 < ParseDec(SubSeq(stdout[i + 1].head, 3, Len(stdout[i + 1].head) - 4)))

\* Two instructions were decoded, the second ending at an offset of two
\* decimal digits.
C8_Witness ==
    /\ Len(trace) = 2
    /\ Len(stdout) = 2
    /\ ptr >= 10
    /\ trace[1] # trace[2]
    /\ status = "halted"

\* 2^k
Pow2(k) == Shl(1, k)

\* C9: the cursor stays within 0..length of the buffer and never moves back,
\* the buffer never changes, and at every offset of the buffer (looked at
\* when the run starts) a primitive read with enough bytes left returns the
\* big-endian value and advances by its width (1, 2, 4) while a read with too
\* few bytes left fails.  (The value of a four-byte read is compared where
\* its first byte is below 128, the range of TLC's integers.)
C9_CursorReads ==
    /\ [](0 <= ptr /\ ptr <= Len(bytearray))
    /\ [][ptr' >= ptr /\ bytearray' = bytearray]_vars
    /\ [](ptr = 0 =>
          \A off \in 0..Len(bytearray) :
             LET left == Len(bytearray) - off
                 b(i) == bytearray[off + i]
             IN  /\ IF left >= 1
                    THEN LET r == get_byte(CursorAt(off))
                         IN  Ok(r.self) /\ r.self.ptr = off + 1 /\ r.val = b(1)
                    ELSE LET r == get_byte(CursorAt(off))
                         IN  ~Ok(r.self) /\ r.self.ptr <= Len(bytearray)
                 /\ IF left >= 2
                    THEN LET r == get_pointer_byte(CursorAt(off))
                         IN  Ok(r.self) /\ r.self.ptr = off + 2
                             /\ r.val = 256 * b(1) + b(2)
                    ELSE LET r == get_pointer_byte(CursorAt(off))
                         IN  ~Ok(r.self) /\ r.self.ptr <= Len(bytearray)
                 /\ IF left >= 4
                    THEN b(1) < 128 =>
                         LET r == get_int24(CursorAt(off))
                         IN  Ok(r.self) /\ r.self.ptr = off + 4
                             /\ r.val = Pow2(24) * b(1) + Pow2(16) * b(2)
                                        + 256 * b(3) + b(4)
                    ELSE LET r == get_int24(CursorAt(off))
                         IN  ~Ok(r.self) /\ r.self.ptr <= Len(bytearray))

\* A read at the very end of a buffer failed after the bytes before it were
\* consumed.
C9_Witness ==
    /\ status = "failed"
    /\ panic.kind = "index_out_of_bounds"
    /\ ptr = Len(bytearray)
    /\ ptr > 4
    /\ Len(trace) = 1

\* The operand fields of each formatter, in order (the operand-layout table).
Layout ==
    [init_memory |-> <<"byte", "byte">>,
     new_value |-> <<"byte", "string">>,
     get_property |-> <<"byte", "byte", "byte">>,
     call_function |-> <<"byte", "byte", "count", "list">>,
     call_apply |-> <<"byte", "byte", "byte", "count", "list">>,
     mul_op |-> <<"byte", "byte", "byte">>,
     div_op |-> <<"byte", "byte", "byte">>,
     or_op |-> <<"byte", "byte", "byte">>,
     sub_op |-> <<"byte", "byte", "byte">>,
     add_op |-> <<"byte", "byte", "byte">>,
     shl_op |-> <<"byte", "byte", "byte">>,
     shr_op |-> <<"byte", "byte", "byte">>,
     ushr_op |-> <<"byte", "byte", "byte">>,
     and_op |-> <<"byte", "byte", "byte">>,
     mod_op |-> <<"byte", "byte", "byte">>,
     xor_op |-> <<"byte", "byte", "byte">>,
     equal_op |-> <<"byte", "byte", "byte">>,
     notequal_op |-> <<"byte", "byte", "byte">>,
     strict_equal_op |-> <<"byte", "byte", "byte">>,
     strict_notequal_op |-> <<"byte", "byte", "byte">>,
     less_than |-> <<"byte", "byte", "byte">>,
     lte_op |-> <<"byte", "byte", "byte">>,
     mov_imm24 |-> <<"byte", "word32">>,
     load_imm24 |-> <<"byte", "byte">>,
     push_args |-> <<"byte", "count", "list">>,
     jump_frame |-> <<"word32", "byte", "count", "list">>,
     new_function |-> <<"byte", "word32", "count", "list">>,
     jump_if_false |-> <<"byte", "word32">>,
     jump_if_true |-> <<"byte", "word32">>,
     set_property |-> <<"byte", "byte", "byte">>,
     jump |-> <<"word32">>,
     halt |-> <<>>,
     function_ret |-> <<"byte", "count", "list">>,
     load_double |-> <<"byte", "double">>,
     try_catch |-> <<"byte", "word32", "word32", "word32">>,
     throw_op |-> <<"byte">>]

RECURSIVE FieldsEnd(_, _)
\* The offset after the operand fields `fields` laid out from offset `off`
\* of the buffer: byte and count 1, word32 4, double 8, string 2 + its
\* declared length, list the value of the count byte before it.
FieldsEnd(fields, off) ==
    IF fields = <<>> THEN off
    ELSE LET kind == Head(fields)
             width == CASE kind \in {"byte", "count"} -> 1
                        [] kind = "word32" -> 4
                        [] kind = "double" -> 8
                        [] kind = "string" -> 2 + 256 * bytearray[off + 1] + bytearray[off + 2]
                        [] kind = "list" -> bytearray[off]
         IN  FieldsEnd(Tail(fields), off + width)

\* C10: a successful decode advances the cursor by the opcode byte plus the
\* widths of the operand fields the layout table lists for the instruction;
\* load-imm consumes 2 operand bytes, mov-imm 5, call-function 3 + argc.
C10_CursorAdvanceByLayout ==
    [][DecodesInstruction =>
          LET name == get_instructions[bytearray[ptr + 1]]
          IN  /\ ptr' = FieldsEnd(Layout[name], ptr + 1)
              /\ name = "load_imm24" => ptr' = ptr + 1 + 2
              /\ name = "mov_imm24" => ptr' = ptr + 1 + 5
              /\ name = "call_function" => ptr' = ptr + 1 + 3 + bytearray[ptr + 4]]_vars

\* A call-function with one argument was decoded after a define-constant.
C10_Witness ==
    /\ Len(trace) = 2
    /\ trace[1].op = "NewValue"
    /\ trace[2].op = "CallFunction"
    /\ bytearray[ptr - 1] = 1
    /\ status = "halted"


\* execute is one sequential loop and nothing else runs: a run that can take
\* its next step takes it.  This is weak fairness of Next, with the enabling
\* condition written out: every action of Next is guarded by
\* status = "running", and a running state always has a step (a formatter, the
\* unknown-opcode panic, or the loop exit), each of which changes vars.
FairSpec ==
    /\ Init /\ [][Next]_vars
    /\ ([]<>(status # "running") \/ []<><<Next>>_vars)

\* C11: every run leaves Running: each loop iteration fails or advances the
\* cursor by at least one byte, and the run ends Halted with the cursor at the
\* length of the buffer, or Failed.
C11_RunTerminates ==
    /\ <>(status # "running")
    /\ [][(status = "running" /\ ptr < Len(bytearray)) =>
              status' = "failed" \/ (status' = "running" /\ ptr' > ptr)]_vars
    /\ [](status \in {"running", "halted", "failed"})
    /\ [](status = "halted" => ptr = Len(bytearray))
    /\ [][status # "running" => UNCHANGED status]_vars

\* A run of two instructions ended Halted at the end of its buffer.
C11_Witness ==
    /\ status = "halted"
    /\ Len(trace) = 2
    /\ ptr = Len(bytearray)

====
